---- MODULE Spec2Model ----
(***************************************************************************)
(* OctreeMapper (src/src/icpslam/octree_mapper.cpp): the voxel-deduplicated *)
(* map, the approximate nearest-neighbour correspondence search, and the   *)
(* per-scan growth transition refineTransformAndGrowMap.                   *)
(*                                                                         *)
(* Geometry is one-dimensional and integer: a point is an integer          *)
(* coordinate, a pose is a reflection r \in {1,-1} (the rotation) and a    *)
(* translation t.  One model unit is a quarter of a length unit, so the    *)
(* default octree resolution 0.5 is 2 units.                               *)
(***************************************************************************)
EXTENDS Integers, Sequences, FiniteSets, TLC

VARIABLES
  map_cloud,       \* map_cloud_->points, a sequence of points
  map_octree,      \* map_octree_: bounding-box anchor and the leaves (voxel key, point index)
  refined_path,    \* refined_path_.poses, a sequence of stamped poses
  crashed,         \* the process has aborted
  last             \* the call the mapper has just executed, its inputs and its
                   \* results, until the caller has taken them (op "none": idle)

vars == <<map_cloud, map_octree, refined_path, crashed, last>>

-----------------------------------------------------------------------------
(* Bounds of the model *)

MaxScanLen == 2      \* points per scan
MaxPathLen == 2      \* growth transitions stop once the path holds this many poses
ICP_MAX_ITERS == 2   \* iteration budget of the registration (line 105), set outside this file

(* Program constant: octree_resolution_, default 0.5 length units *)
Resolution == 2

\* scan coordinates (robot frame) span one voxel width; the poses and the
\* anchor of the octree put them in one voxel or in two
Coords == 0..(Resolution - 1)
Scans == UNION {[1..n -> Coords] : n \in 0..MaxScanLen}
Sinks == {"nn", "map", "path", "registered"}
SubscriberCounts == {0, 1}
\* a scan is stamped when it is taken; ros::Time().now() is read later
Stamps == {1}
Clock == {2}

Identity == [r |-> 1, t |-> 0]
RawPoses == {Identity, [r |-> -1, t |-> 1]}
IcpDeltas == {Identity, [r |-> 1, t |-> 1]}
\* what the caller's output parameter holds before the call
CallerTransform == [r |-> -1, t |-> 0]

\* results of one approxNearestSearch: an index into map_cloud->points
\* (from 0), NoResult (result_index left at -1), or Abort (the process dies)
NoResult == -1
Abort == NoResult - 1

-----------------------------------------------------------------------------
(* Pose6DOF *)

\* raw_pose + transform: homogeneous composition, t = a.t + a.R * b.t, R = a.R * b.R
compose(a, b) == [r |-> a.r * b.r, t |-> a.t + a.r * b.t]

\* pose.inverse(): (R^-1, -R^-1 t); a reflection is its own inverse
inverse(p) == [r |-> p.r, t |-> 0 - p.r * p.t]

\* one point under the rigid transform of a pose
transformPoint(pose, x) == pose.r * x + pose.t

\* faulty variant: the cloud is handed over without being transformed
transformCloudUntransformed(in_cloud, pose, out_cloud, throws) ==
  IF throws THEN out_cloud ELSE in_cloud

\* transformCloudToPoseFrame: out_cloud is overwritten with the transformed
\* in_cloud; when the transform throws, the exception is swallowed and
\* out_cloud keeps what it held.
transformCloudToPoseFrame(in_cloud, pose, out_cloud, throws) ==
  IF throws THEN out_cloud
  ELSE [i \in 1..Len(in_cloud) |-> transformPoint(pose, in_cloud[i])]

-----------------------------------------------------------------------------
(* The octree over map_cloud *)

EmptyOctree == [defined |-> FALSE, min |-> 0, leaves |-> {}]

\* key of the voxel of point p in the grid anchored at the bounding box
VoxelKey(oct, p) == (p - oct.min) \div Resolution

isVoxelOccupiedAtPoint(oct, p) ==
  /\ oct.defined
  /\ \E l \in oct.leaves : l[1] = VoxelKey(oct, p)

\* faulty variant: the point is put in front of the cloud instead of at its end
addPointToCloudFront(oct, cloud, p) ==
  LET o1 == IF oct.defined THEN oct
            ELSE [oct EXCEPT !.defined = TRUE, !.min = p - (Resolution \div 2)]
  IN [cloud |-> <<p>> \o cloud,
      octree |-> [o1 EXCEPT !.leaves = @ \cup {<<(p - o1.min) \div Resolution, Len(cloud) + 1>>}]]

\* addPointToCloud: append the point to the cloud and index it; the first
\* point of an octree centres the bounding box on itself
addPointToCloud(oct, cloud, p) ==
  LET o1 == IF oct.defined THEN oct
            ELSE [oct EXCEPT !.defined = TRUE, !.min = p - (Resolution \div 2)]
  IN [cloud |-> Append(cloud, p),
      octree |-> [o1 EXCEPT !.leaves = @ \cup {<<VoxelKey(o1, p), Len(cloud) + 1>>}]]

RECURSIVE addPointsFrom(_, _, _)
addPointsFrom(input_cloud, i, m) ==
  IF i > Len(input_cloud) THEN m
  ELSE LET point == input_cloud[i]
       IN addPointsFrom(input_cloud, i + 1,
            IF ~isVoxelOccupiedAtPoint(m.octree, point)
            THEN addPointToCloud(m.octree, m.cloud, point)
            ELSE m)

\* faulty variant: occupancy is tested against the octree as it was before the
\* call, so two points of one scan in one voxel are both stored
RECURSIVE addPointsFromStale(_, _, _, _)
addPointsFromStale(input_cloud, i, m, before) ==
  IF i > Len(input_cloud) THEN m
  ELSE LET point == input_cloud[i]
       IN addPointsFromStale(input_cloud, i + 1,
            IF ~isVoxelOccupiedAtPoint(before, point)
            THEN addPointToCloud(m.octree, m.cloud, point)
            ELSE m, before)

addPointsToMapStale(input_cloud, cloud, oct) ==
  addPointsFromStale(input_cloud, 1, [cloud |-> cloud, octree |-> oct], oct)

addPointsToMap(input_cloud, cloud, oct) ==
  addPointsFrom(input_cloud, 1, [cloud |-> cloud, octree |-> oct])

\* centre of the voxel with the given key, in half units
VoxelCentre2(oct, key) == 2 * (oct.min + key * Resolution) + Resolution

Dist2(oct, key, p) ==
  LET d == 2 * p - VoxelCentre2(oct, key) IN IF d < 0 THEN 0 - d ELSE d

\* the outcomes approxNearestSearch can have for one query point: with no
\* leaf in the tree the search has nothing to descend into (result_index is
\* left untouched, or the process aborts); otherwise it descends to the leaf
\* whose voxel centre is closest to the query, the first such child winning
\* a tie, and yields the point stored there
SearchResults(p, oct) ==
  IF oct.leaves = {} THEN {NoResult, Abort}
  ELSE {l[2] - 1 : l \in {m \in oct.leaves :
                       \A o \in oct.leaves :
                          \/ Dist2(oct, m[1], p) < Dist2(oct, o[1], p)
                          \/ Dist2(oct, m[1], p) = Dist2(oct, o[1], p) /\ m[1] <= o[1]}}

RECURSIVE nearestFrom(_, _, _, _, _)
nearestFrom(cloud, i, lookups, map, acc) ==
  IF i > Len(cloud) THEN [nn |-> acc, aborted |-> FALSE]
  ELSE IF lookups[i] = Abort THEN [nn |-> acc, aborted |-> TRUE]
  ELSE nearestFrom(cloud, i + 1, lookups, map,
         IF lookups[i] >= 0 THEN Append(acc, map[lookups[i] + 1]) ELSE acc)

\* faulty variant: the output cloud is not cleared before the search
approxNearestNeighborsKeep(cloud, nearest_neighbors, lookups, map) ==
  LET r == nearestFrom(cloud, 1, lookups, map, nearest_neighbors)
  IN [nn |-> r.nn, aborted |-> r.aborted, ret |-> Len(r.nn) > 0]

\* approxNearestNeighbors(cloud, nearest_neighbors); lookups[i] is what
\* approxNearestSearch yields for cloud[i]
approxNearestNeighbors(cloud, nearest_neighbors, lookups, map) ==
  LET r == nearestFrom(cloud, 1, lookups, map, <<>>)
  IN [nn |-> r.nn, aborted |-> r.aborted, ret |-> Len(r.nn) > 0]

\* the search results a query cloud can get, point by point
LookupChoices(cloud, oct) ==
  {f \in [1..Len(cloud) -> {l[2] - 1 : l \in oct.leaves} \cup {NoResult, Abort}] :
     \A i \in 1..Len(cloud) : f[i] \in SearchResults(cloud[i], oct)}

-----------------------------------------------------------------------------
(* Registration *)

NotConverged == [converged |-> FALSE, T |-> Identity]

\* faulty variant: registration may converge on a cloud without points
IcpOutcomesAny(curr_cloud, nn_cloud) ==
  {NotConverged} \cup {[converged |-> TRUE, T |-> d] : d \in IcpDeltas}

IcpOutcomes(curr_cloud, nn_cloud) ==
  IF Len(curr_cloud) = 0 \/ Len(nn_cloud) = 0 THEN {NotConverged}
  ELSE {NotConverged} \cup {[converged |-> TRUE, T |-> d] : d \in IcpDeltas}

\* faulty variant: convergence is reported but the estimate is not handed back
estimateTransformICPUnwritten(curr_cloud, nn_cloud, transform, icp) ==
  [ret |-> icp.converged, transform |-> transform]

\* faulty variant: the final transformation is handed back whether or not
\* registration converged
estimateTransformICPAlwaysWritten(curr_cloud, nn_cloud, transform, icp) ==
  [ret |-> icp.converged, transform |-> icp.T]

\* estimateTransformICP: transform is written only when icp.hasConverged()
estimateTransformICP(curr_cloud, nn_cloud, transform, icp) ==
  IF icp.converged THEN [ret |-> TRUE, transform |-> icp.T]
  ELSE [ret |-> FALSE, transform |-> transform]

-----------------------------------------------------------------------------
(* Publishing *)

\* faulty variant: every check reads the map publisher's count
hasSubscribersOfMap(sink, subs) == subs["map"] > 0

\* publisher.getNumSubscribers() > 0; subs[sink] is the count the publisher
\* reports when the check before that emission reads it
hasSubscribers(sink, subs) == subs[sink] > 0

Emission(sink, cloud, path) == [sink |-> sink, cloud |-> cloud, path |-> path]

\* publishPointCloud behind its subscriber check
publishCloudIfSubscribed(sink, cloud, subs) ==
  IF hasSubscribers(sink, subs) THEN <<Emission(sink, cloud, <<>>)>> ELSE <<>>

\* publishPath: insertPoseInPath stamps the pose with ros::Time().now()
\* and the whole path is published
publishPath(latest_pose, path, now) ==
  LET p == Append(path, [pose |-> latest_pose, stamp |-> now])
  IN [path |-> p, emitted |-> <<Emission("path", <<>>, p)>>]

publishPathIfSubscribed(latest_pose, path, now, subs) ==
  IF hasSubscribers("path", subs) THEN publishPath(latest_pose, path, now)
  ELSE [path |-> path, emitted |-> <<>>]

\* the counts read by the checks a call went through
ReadBy(sinks, subs) == [s \in sinks |-> subs[s]]

-----------------------------------------------------------------------------
(* refineTransformAndGrowMap *)

\* faulty variant: the bootstrap branch returns without inserting the scan
growEmptyMapNoInsert(cloud_in_map, transform) ==
  [cloud |-> map_cloud, octree |-> map_octree, path |-> refined_path,
   ret |-> FALSE, transform |-> transform, emitted |-> <<>>,
   branch |-> "bootstrap", converged |-> FALSE, aborted |-> FALSE,
   nn_cloud |-> <<>>, cloud_in_map |-> cloud_in_map, checked |-> {},
   icp_ran |-> FALSE, refined_pose |-> Identity]

\* lines 138-142: the map is empty, the scan is inserted and the call fails
growEmptyMap(cloud_in_map, transform) ==
  LET m == addPointsToMap(cloud_in_map, map_cloud, map_octree)
  IN [cloud |-> m.cloud, octree |-> m.octree, path |-> refined_path,
      ret |-> FALSE, transform |-> transform, emitted |-> <<>>,
      branch |-> "bootstrap", converged |-> FALSE, aborted |-> FALSE,
      nn_cloud |-> <<>>, cloud_in_map |-> cloud_in_map, checked |-> {},
      icp_ran |-> FALSE, refined_pose |-> Identity]

\* faulty variant: a scan whose registration failed is inserted as transformed by
\* the raw pose
registrationFailedFallback(cloud_in_map, nn_cloud, transform, emitted) ==
  LET m == addPointsToMap(cloud_in_map, map_cloud, map_octree)
  IN [cloud |-> m.cloud, octree |-> m.octree, path |-> refined_path,
      ret |-> FALSE, transform |-> transform, emitted |-> emitted,
      branch |-> "tracking", converged |-> FALSE, aborted |-> FALSE,
      nn_cloud |-> nn_cloud, cloud_in_map |-> cloud_in_map, checked |-> {"nn"},
      icp_ran |-> TRUE, refined_pose |-> Identity]

\* faulty variant: a call whose registration failed publishes the map snapshot
registrationFailedSnapshot(cloud_in_map, nn_cloud, transform, emitted) ==
  [cloud |-> map_cloud, octree |-> map_octree, path |-> refined_path,
   ret |-> FALSE, transform |-> transform,
   emitted |-> Append(emitted, Emission("map", map_cloud, <<>>)),
   branch |-> "tracking", converged |-> FALSE, aborted |-> FALSE,
   nn_cloud |-> nn_cloud, cloud_in_map |-> cloud_in_map, checked |-> {"nn"},
   icp_ran |-> TRUE, refined_pose |-> Identity]

\* line 172: registration did not converge
registrationFailed(cloud_in_map, nn_cloud, transform, emitted) ==
  [cloud |-> map_cloud, octree |-> map_octree, path |-> refined_path,
   ret |-> FALSE, transform |-> transform, emitted |-> emitted,
   branch |-> "tracking", converged |-> FALSE, aborted |-> FALSE,
   nn_cloud |-> nn_cloud, cloud_in_map |-> cloud_in_map, checked |-> {"nn"},
   icp_ran |-> TRUE, refined_pose |-> Identity]

\* faulty variant: the map snapshot is published before the scan is inserted
registrationConvergedEarlySnapshot(cloud, raw_pose, transform, cloud_in_map, nn_cloud, emitted, now, subs, throws) ==
  LET refined_pose == compose(raw_pose, transform)
      registered == transformCloudToPoseFrame(cloud, refined_pose, cloud_in_map, throws)
      m == addPointsToMap(registered, map_cloud, map_octree)
      pp == publishPathIfSubscribed(refined_pose, refined_path, now, subs)
  IN [cloud |-> m.cloud, octree |-> m.octree, path |-> pp.path,
      ret |-> TRUE, transform |-> transform,
      emitted |-> emitted \o publishCloudIfSubscribed("map", map_cloud, subs)
                          \o pp.emitted
                          \o publishCloudIfSubscribed("registered", registered, subs),
      branch |-> "tracking", converged |-> TRUE, aborted |-> FALSE,
      nn_cloud |-> nn_cloud, cloud_in_map |-> registered, checked |-> Sinks,
      icp_ran |-> TRUE, refined_pose |-> refined_pose]

\* lines 156-169: registration converged
registrationConverged(cloud, raw_pose, transform, cloud_in_map, nn_cloud, emitted, now, subs, throws) ==
  LET refined_pose == compose(raw_pose, transform)
      registered == transformCloudToPoseFrame(cloud, refined_pose, cloud_in_map, throws)
      m == addPointsToMap(registered, map_cloud, map_octree)
      pp == publishPathIfSubscribed(refined_pose, refined_path, now, subs)
  IN [cloud |-> m.cloud, octree |-> m.octree, path |-> pp.path,
      ret |-> TRUE, transform |-> transform,
      emitted |-> emitted \o publishCloudIfSubscribed("map", m.cloud, subs)
                          \o pp.emitted
                          \o publishCloudIfSubscribed("registered", registered, subs),
      branch |-> "tracking", converged |-> TRUE, aborted |-> FALSE,
      nn_cloud |-> nn_cloud, cloud_in_map |-> registered, checked |-> Sinks,
      icp_ran |-> TRUE, refined_pose |-> refined_pose]

\* the search died inside approxNearestSearch
searchAborted(cloud_in_map, transform) ==
  [cloud |-> map_cloud, octree |-> map_octree, path |-> refined_path,
   ret |-> FALSE, transform |-> transform, emitted |-> <<>>,
   branch |-> "tracking", converged |-> FALSE, aborted |-> TRUE,
   nn_cloud |-> <<>>, cloud_in_map |-> cloud_in_map, checked |-> {},
   icp_ran |-> FALSE, refined_pose |-> Identity]

\* faulty variant: every scan point is matched with itself, as a search that
\* runs after the scan's own points were stored returns them
trackAgainstMapSelfMatch(cloud, raw_pose, transform, cloud_in_map, lookups, icp, now, subs, throws) ==
  LET nn_cloud == transformCloudToPoseFrame(cloud_in_map, inverse(raw_pose), <<>>, throws[2])
      emitted == publishCloudIfSubscribed("nn", nn_cloud, subs)
      est == estimateTransformICP(cloud, nn_cloud, transform,
               IF icp \in IcpOutcomes(cloud, nn_cloud) THEN icp ELSE NotConverged)
  IN IF est.ret
     THEN registrationConverged(cloud, raw_pose, est.transform, cloud_in_map,
                                nn_cloud, emitted, now, subs, throws[3])
     ELSE registrationFailed(cloud_in_map, nn_cloud, est.transform, emitted)

\* lines 144-172: correspondences, registration, growth
trackAgainstMap(cloud, raw_pose, transform, cloud_in_map, lookups, icp, now, subs, throws) ==
  LET ann == approxNearestNeighbors(cloud_in_map, <<>>, lookups, map_cloud)
      nn_cloud == transformCloudToPoseFrame(ann.nn, inverse(raw_pose), <<>>, throws[2])
      emitted == publishCloudIfSubscribed("nn", nn_cloud, subs)
      est == estimateTransformICP(cloud, nn_cloud, transform,
               IF icp \in IcpOutcomes(cloud, nn_cloud) THEN icp ELSE NotConverged)
  IN IF ann.aborted THEN searchAborted(cloud_in_map, transform)
     ELSE IF est.ret
     THEN registrationConverged(cloud, raw_pose, est.transform, cloud_in_map,
                                nn_cloud, emitted, now, subs, throws[3])
     ELSE registrationFailed(cloud_in_map, nn_cloud, est.transform, emitted)

refineTransformAndGrowMap(stamp, cloud, raw_pose, transform, lookups, icp, now, subs, throws) ==
  LET cloud_in_map == transformCloudToPoseFrame(cloud, raw_pose, <<>>, throws[1])
  IN IF Len(map_cloud) = 0
     THEN growEmptyMap(cloud_in_map, transform)
     ELSE trackAgainstMap(cloud, raw_pose, transform, cloud_in_map, lookups, icp, now, subs, throws)

-----------------------------------------------------------------------------
(* State machine *)

NoCall == [op |-> "none", stamp |-> 0, cloud |-> <<>>, raw_pose |-> Identity,
           transform_in |-> Identity, transform_out |-> Identity, ret |-> FALSE,
           branch |-> "none", converged |-> FALSE, lookups |-> <<>>,
           nn_in |-> <<>>, nn_out |-> <<>>, cloud_in_map |-> <<>>,
           subs |-> <<>>, emitted |-> <<>>, icp_ran |-> FALSE,
           delta |-> Identity, refined_pose |-> Identity,
           throws |-> <<>>, reported |-> FALSE,
           pc |-> "idle", i |-> 0, iters |-> 0]

\* the constructor: init() ends with resetMap, so the map starts empty
Init ==
  /\ map_cloud = <<>>
  /\ map_octree = EmptyOctree
  /\ refined_path = <<>>
  /\ crashed = FALSE
  /\ last = NoCall

\* pcl_ros::transformPointCloud with a tf::Transform is plain arithmetic:
\* none of the three transform calls of a growth transition throws
NoThrow == [i \in 1..3 |-> FALSE]

\* calls are serialized: the mapper takes a call only when idle
Idle == ~crashed /\ last.op = "none"

RefineTransformAndGrowMap(stamp, cloud, raw_pose, transform, lookups, icp, now, subs, throws) ==
  /\ Idle
  /\ Len(refined_path) < MaxPathLen
  /\ \E res \in {refineTransformAndGrowMap(stamp, cloud, raw_pose, transform,
                                              lookups, icp, now, subs, throws)} :
        /\ map_cloud' = res.cloud
        /\ map_octree' = res.octree
        /\ refined_path' = res.path
        /\ crashed' = res.aborted
        /\ last' = [op |-> "refine", stamp |-> stamp,
                    cloud |-> cloud, raw_pose |-> raw_pose,
                    transform_in |-> transform, transform_out |-> res.transform,
                    ret |-> res.ret, branch |-> res.branch,
                    converged |-> res.converged, lookups |-> <<>>,
                    nn_in |-> <<>>, nn_out |-> res.nn_cloud,
                    cloud_in_map |-> res.cloud_in_map,
                    subs |-> ReadBy(res.checked, subs), emitted |-> res.emitted,
                    icp_ran |-> res.icp_ran,
                    delta |-> IF res.converged THEN icp.T ELSE Identity,
                    refined_pose |-> res.refined_pose,
                    throws |-> throws, reported |-> FALSE,
                    pc |-> "idle", i |-> 0, iters |-> 0]

\* faulty variant: the reset also drops the refined path
ResetMapAndPath ==
  /\ Idle
  /\ map_octree' = EmptyOctree
  /\ map_cloud' = <<>>
  /\ refined_path' = <<>>
  /\ last' = [NoCall EXCEPT !.op = "reset"]
  /\ UNCHANGED crashed

\* lines 56-60: a fresh octree and a fresh backing cloud
ResetMap ==
  /\ Idle
  /\ map_octree' = EmptyOctree
  /\ map_cloud' = <<>>
  /\ last' = [NoCall EXCEPT !.op = "reset"]
  /\ UNCHANGED <<refined_path, crashed>>

\* a direct call of approxNearestNeighbors(cloud, nearest_neighbors)
ApproxNearestNeighbors(cloud, nearest_neighbors, lookups) ==
  /\ Idle
  /\ \E res \in {approxNearestNeighbors(cloud, nearest_neighbors, lookups, map_cloud)} :
        /\ crashed' = res.aborted
        /\ last' = [NoCall EXCEPT !.op = "nearest",
                                  !.cloud = cloud, !.lookups = lookups,
                                  !.ret = res.ret, !.nn_in = nearest_neighbors,
                                  !.nn_out = res.nn]
  /\ UNCHANGED <<map_cloud, map_octree, refined_path>>

\* a direct call of estimateTransformICP(curr_cloud, nn_cloud, transform)
EstimateTransformICP(curr_cloud, nn_cloud, transform, icp) ==
  /\ Idle
  /\ \E res \in {estimateTransformICP(curr_cloud, nn_cloud, transform, icp)} :
        last' = [NoCall EXCEPT !.op = "icp", !.cloud = curr_cloud,
                                !.nn_in = nn_cloud, !.nn_out = nn_cloud,
                                !.transform_in = transform,
                                !.transform_out = res.transform,
                                !.ret = res.ret, !.converged = icp.converged,
                                !.icp_ran = TRUE,
                                !.delta = IF icp.converged THEN icp.T ELSE Identity]
  /\ UNCHANGED <<map_cloud, map_octree, refined_path, crashed>>

\* the caller takes the results of the call; the mapper is idle again
Return ==
  /\ ~crashed
  /\ last.op # "none"
  /\ last' = NoCall
  /\ UNCHANGED <<map_cloud, map_octree, refined_path, crashed>>

\* the registration outcomes offered to a growth transition; on an empty
\* map registration is not reached
IcpChoices ==
  IF Len(map_cloud) = 0 THEN {NotConverged}
  ELSE {NotConverged} \cup {[converged |-> TRUE, T |-> d] : d \in IcpDeltas}

\* the subscriber counts the checks of a growth transition can read: a
\* check that is not reached reads nothing (its count is given as 0)
WillCheck(icp) ==
  IF Len(map_cloud) = 0 THEN {}
  ELSE IF icp.converged THEN Sinks ELSE {"nn"}
SubsChoices(icp) ==
  {f \in [Sinks -> SubscriberCounts] : \A s \in Sinks \ WillCheck(icp) : f[s] = 0}

\* ros::Time().now() is read only by publishPath
ClockChoices(icp, subs) ==
  IF icp.converged /\ subs["path"] > 0 THEN Clock ELSE {CHOOSE t \in Clock : TRUE}

PriorOutputs == {<<>>, <<9>>}

\* the correspondence clouds a direct registration call is given
PartnerClouds == {<<>>, <<0>>}

\* a growth transition with every input it can be given
GrowthTransition ==
  /\ Idle
  /\ Len(refined_path) < MaxPathLen
  /\ \E stamp \in Stamps, cloud \in Scans, raw_pose \in RawPoses :
       \E lookups \in LookupChoices(transformCloudToPoseFrame(cloud, raw_pose, <<>>, FALSE),
                                    map_octree) :
         \E icp \in IcpChoices :
           \E subs \in SubsChoices(icp) :
             \E now \in ClockChoices(icp, subs) :
               RefineTransformAndGrowMap(stamp, cloud, raw_pose, CallerTransform,
                                         lookups, icp, now, subs, NoThrow)

\* a correspondence search with every input it can be given
CorrespondenceSearch ==
  /\ Idle
  /\ \E cloud \in Scans, nearest_neighbors \in PriorOutputs :
       \E lookups \in LookupChoices(cloud, map_octree) :
         ApproxNearestNeighbors(cloud, nearest_neighbors, lookups)

\* a registration with every input it can be given
Registration ==
  /\ Idle
  /\ \E curr_cloud \in Scans, nn_cloud \in PartnerClouds :
       \E icp \in IcpOutcomes(curr_cloud, nn_cloud) :
         EstimateTransformICP(curr_cloud, nn_cloud, CallerTransform, icp)

Next ==
  \/ GrowthTransition
  \/ ResetMap
  \/ CorrespondenceSearch
  \/ Registration
  \/ Return

Spec == Init /\ [][Next]_vars

-----------------------------------------------------------------------------
(* The mapper with transform calls that fail: the catch clause of        *)
(* transformCloudToPoseFrame (lines 96-98) is taken when the library     *)
(* call throws tf::TransformException                                    *)

\* lines 92-99 as the caller sees one call: the clause catches the exception
\* and its body is empty, the function is void, so the caller gets the
\* output cloud and nothing else
transformCloudToPoseFrameCall(in_cloud, pose, out_cloud, throws) ==
  [out_cloud |-> transformCloudToPoseFrame(in_cloud, pose, out_cloud, throws),
   propagated |-> FALSE,
   reported |-> FALSE]

\* a direct call of transformCloudToPoseFrame(in_cloud, pose, out_cloud)
TransformCloudToPoseFrame(in_cloud, pose, out_cloud, throws) ==
  /\ Idle
  /\ \E res \in {transformCloudToPoseFrameCall(in_cloud, pose, out_cloud, throws)} :
        /\ crashed' = res.propagated
        /\ last' = [NoCall EXCEPT !.op = "transform", !.cloud = in_cloud,
                                  !.raw_pose = pose, !.nn_in = out_cloud,
                                  !.nn_out = res.out_cloud,
                                  !.throws = <<throws>>,
                                  !.reported = res.reported]
  /\ UNCHANGED <<map_cloud, map_octree, refined_path>>

\* which of the three transform calls of a growth transition throw, at least
\* one: the second call is made on a non-empty map only, the third only
\* after a registration that converged
ThrowChoices ==
  {f \in [1..3 -> BOOLEAN] :
     /\ f # NoThrow
     /\ Len(map_cloud) = 0 => (~f[2] /\ ~f[3])
     /\ (f[1] \/ f[2]) => ~f[3]}

\* registration runs on what the first two calls left: after a failure it
\* is given an empty cloud; the third call is reached by convergence only
IcpChoicesAfter(throws) ==
  IF throws[1] \/ throws[2] THEN {NotConverged}
  ELSE IF throws[3] THEN IcpChoices \ {NotConverged}
  ELSE IcpChoices

\* a growth transition in which a transform call fails
GrowthTransitionThrowing ==
  /\ Idle
  /\ Len(refined_path) < MaxPathLen
  /\ \E throws \in ThrowChoices :
       \E stamp \in Stamps, cloud \in Scans, raw_pose \in RawPoses :
         \E lookups \in LookupChoices(transformCloudToPoseFrame(cloud, raw_pose, <<>>, throws[1]),
                                      map_octree) :
           \E icp \in IcpChoicesAfter(throws) :
             \E subs \in SubsChoices(icp) :
               \E now \in ClockChoices(icp, subs) :
                 RefineTransformAndGrowMap(stamp, cloud, raw_pose, CallerTransform,
                                           lookups, icp, now, subs, throws)

\* a call of transformCloudToPoseFrame with every input it can be given
TransformCall ==
  /\ Idle
  /\ \E in_cloud \in Scans, pose \in RawPoses, out_cloud \in PriorOutputs,
        throws \in BOOLEAN :
       TransformCloudToPoseFrame(in_cloud, pose, out_cloud, throws)

NextThrow ==
  \/ GrowthTransition
  \/ GrowthTransitionThrowing
  \/ TransformCall
  \/ ResetMap
  \/ CorrespondenceSearch
  \/ Registration
  \/ Return

SpecThrow == Init /\ [][NextThrow]_vars

-----------------------------------------------------------------------------
(* One call of refineTransformAndGrowMap, loop iteration by loop          *)
(* iteration. last.pc is the place the call has reached, last.i the index *)
(* of the running for loop, last.iters the registration iterations made.  *)
(* A published snapshot leaves nothing in the mapper and does not steer   *)
(* the call: Spec records the snapshots, here only the path that          *)
(* publishPath appends to is kept.                                        *)

Running(pc) == last.op = "refine" /\ last.pc = pc

\* lines 133-138: entry, the scan under the raw pose, the branch on the map
Enter(stamp, cloud, raw_pose, transform) ==
  /\ Idle
  /\ Len(refined_path) < MaxPathLen
  /\ last' = [NoCall EXCEPT
                !.op = "refine", !.stamp = stamp, !.cloud = cloud,
                !.raw_pose = raw_pose, !.transform_in = transform,
                !.transform_out = transform,
                !.cloud_in_map = transformCloudToPoseFrame(cloud, raw_pose, <<>>, FALSE),
                !.branch = IF Len(map_cloud) = 0 THEN "bootstrap" ELSE "tracking",
                !.pc = IF Len(map_cloud) = 0 THEN "insert" ELSE "search"]
  /\ UNCHANGED <<map_cloud, map_octree, refined_path, crashed>>

\* faulty variant: the loop of addPointsToMap does not advance its index
InsertPointStuck ==
  /\ Running("insert")
  /\ last.i < Len(last.cloud_in_map)
  /\ \E m \in {addPointsFrom(<<last.cloud_in_map[last.i + 1]>>, 1,
                              [cloud |-> map_cloud, octree |-> map_octree])} :
        /\ map_cloud' = m.cloud
        /\ map_octree' = m.octree
  /\ UNCHANGED <<last, refined_path, crashed>>

\* lines 64-69: one iteration of the loop of addPointsToMap
InsertPoint ==
  /\ Running("insert")
  /\ last.i < Len(last.cloud_in_map)
  /\ \E m \in {addPointsFrom(<<last.cloud_in_map[last.i + 1]>>, 1,
                              [cloud |-> map_cloud, octree |-> map_octree])} :
        /\ map_cloud' = m.cloud
        /\ map_octree' = m.octree
  /\ last' = [last EXCEPT !.i = last.i + 1]
  /\ UNCHANGED <<refined_path, crashed>>

\* line 64 with i at the size: the loop of addPointsToMap is left; the
\* bootstrap branch returns false (line 141), the tracking branch goes on
\* to its publications
InsertEnd ==
  /\ Running("insert")
  /\ last.i >= Len(last.cloud_in_map)
  /\ last' = [last EXCEPT !.pc = IF last.branch = "bootstrap" THEN "return"
                                 ELSE "publish"]
  /\ UNCHANGED <<map_cloud, map_octree, refined_path, crashed>>

\* lines 79-88: one iteration of the loop of approxNearestNeighbors; the
\* matches are collected in last.nn_in
SearchPoint ==
  /\ Running("search")
  /\ last.i < Len(last.cloud_in_map)
  /\ \E r \in SearchResults(last.cloud_in_map[last.i + 1], map_octree) :
        last' = [last EXCEPT
                   !.i = last.i + 1,
                   !.nn_in = IF r >= 0 THEN Append(last.nn_in, map_cloud[r + 1])
                             ELSE last.nn_in]
  /\ UNCHANGED <<map_cloud, map_octree, refined_path, crashed>>

\* line 79 with ii at the size, then lines 89 and 148-153: the matches are
\* taken to the robot frame (and published if subscribed)
SearchEnd ==
  /\ Running("search")
  /\ last.i >= Len(last.cloud_in_map)
  /\ \E nn_cloud \in {transformCloudToPoseFrame(last.nn_in, inverse(last.raw_pose),
                                                <<>>, FALSE)} :
        last' = [last EXCEPT
                   !.pc = "icp", !.nn_out = nn_cloud]
  /\ UNCHANGED <<map_cloud, map_octree, refined_path, crashed>>

\* lines 105 and 114: one iteration of icp.align, made only within the
\* budget of setMaximumIterations and only on clouds with points; it may
\* reach convergence
IcpIteration(icp) ==
  /\ Running("icp")
  /\ ~last.converged
  /\ last.iters < ICP_MAX_ITERS
  /\ IcpOutcomes(last.cloud, last.nn_out) # {NotConverged}
  /\ icp \in IcpOutcomes(last.cloud, last.nn_out)
  /\ last' = [last EXCEPT !.iters = last.iters + 1,
                          !.converged = icp.converged, !.delta = icp.T]
  /\ UNCHANGED <<map_cloud, map_octree, refined_path, crashed>>

\* lines 117-123 and 155-157: align has returned; on convergence the delta
\* is handed back and the scan is transformed by the refined pose for the
\* insertion, otherwise the call returns false (line 172)
IcpEnd ==
  /\ Running("icp")
  /\ \/ last.converged
     \/ last.iters >= ICP_MAX_ITERS
     \/ IcpOutcomes(last.cloud, last.nn_out) = {NotConverged}
  /\ \E est \in {estimateTransformICP(last.cloud, last.nn_out, last.transform_in,
                     [converged |-> last.converged, T |-> last.delta])} :
        last' = IF est.ret
                THEN [last EXCEPT
                        !.icp_ran = TRUE, !.pc = "insert", !.i = 0,
                        !.transform_out = est.transform,
                        !.refined_pose = compose(last.raw_pose, est.transform),
                        !.cloud_in_map =
                           transformCloudToPoseFrame(last.cloud,
                              compose(last.raw_pose, est.transform),
                              last.cloud_in_map, FALSE)]
                ELSE [last EXCEPT !.icp_ran = TRUE, !.pc = "return"]
  /\ UNCHANGED <<map_cloud, map_octree, refined_path, crashed>>

\* lines 160-169: the three publications of a successful call, of which
\* publishPath appends to the path; the call returns true
Publish(now, subs) ==
  /\ Running("publish")
  /\ \E pp \in {publishPathIfSubscribed(last.refined_pose, refined_path, now, subs)} :
        /\ refined_path' = pp.path
        /\ last' = [last EXCEPT !.pc = "return", !.ret = TRUE]
  /\ UNCHANGED <<map_cloud, map_octree, crashed>>

\* the call hands its result to the caller; the mapper is idle again
Leave ==
  /\ Running("return")
  /\ last' = NoCall
  /\ UNCHANGED <<map_cloud, map_octree, refined_path, crashed>>

\* a call begins with any scan and raw pose
Begin ==
  \E stamp \in Stamps, cloud \in Scans, raw_pose \in RawPoses :
    Enter(stamp, cloud, raw_pose, CallerTransform)

\* the steps of a call that has begun
RunStep ==
  \/ InsertPoint
  \/ InsertEnd
  \/ SearchPoint
  \/ SearchEnd
  \/ \E icp \in IcpChoices : IcpIteration(icp)
  \/ IcpEnd
  \/ \E now \in Clock, subs \in [Sinks -> SubscriberCounts] : Publish(now, subs)
  \/ Leave

NextRun == Begin \/ RunStep

\* the thread that runs the call keeps running it: a step of the call that
\* can be taken is taken; nothing obliges a caller to begin a call
SpecRun == Init /\ [][NextRun]_vars /\ WF_vars(RunStep)

-----------------------------------------------------------------------------
(* Properties *)

\* the step is a call of refineTransformAndGrowMap / of resetMap
RefineStep == last.op = "none" /\ last'.op = "refine"
ResetStep == last.op = "none" /\ last'.op = "reset"

Range(seq) == {seq[i] : i \in 1..Len(seq)}
IsPrefix(a, b) == Len(a) <= Len(b) /\ \A i \in 1..Len(a) : a[i] = b[i]
EmittedSinks == {last.emitted[i].sink : i \in 1..Len(last.emitted)}
\* the scan of the last call as the given pose puts it in the map frame
ScanUnder(pose) == [i \in 1..Len(last.cloud) |-> transformPoint(pose, last.cloud[i])]

\* C1: in every reachable state the backing cloud holds at most one point
\* per voxel of the octree, and the octree indexes exactly the stored points.
OnePointPerVoxel ==
  /\ \A i, j \in 1..Len(map_cloud) :
       i # j => VoxelKey(map_octree, map_cloud[i]) # VoxelKey(map_octree, map_cloud[j])
  /\ map_octree.leaves = {<<VoxelKey(map_octree, map_cloud[i]), i>> : i \in 1..Len(map_cloud)}

\* C1 witness: a scan with two different points in one voxel was inserted
\* and only its first point is stored.
TwoPointsOneVoxelStoredOnce ==
  /\ last.op = "refine"
  /\ Len(last.cloud_in_map) = 2
  /\ last.cloud_in_map[1] # last.cloud_in_map[2]
  /\ map_cloud = <<last.cloud_in_map[1]>>

\* C2: a growth transition on a non-empty map whose registration does not
\* converge returns false and leaves the map and the refined path as they were.
NonConvergenceLeavesMapAndPath ==
  [][(RefineStep /\ Len(map_cloud) > 0 /\ ~last'.converged)
       => /\ last'.ret = FALSE
          /\ map_cloud' = map_cloud
          /\ map_octree' = map_octree
          /\ refined_path' = refined_path]_vars

\* C2 witness: registration failed on a scan that has a point in a voxel the
\* map does not occupy.
FailedScanWithNewVoxel ==
  /\ last.op = "refine"
  /\ last.icp_ran /\ ~last.converged
  /\ \E i \in 1..Len(last.cloud_in_map) :
       ~isVoxelOccupiedAtPoint(map_octree, last.cloud_in_map[i])

\* C3: a growth transition on an empty map returns false without running
\* the registration, and afterwards the map holds exactly one point, a point
\* of the scan under the raw pose, for each voxel that scan hits.
BootstrapStoresScanUnderRawPose ==
  [][(RefineStep /\ Len(map_cloud) = 0)
       => /\ last'.ret = FALSE
          /\ ~last'.icp_ran
          /\ LET scan == [i \in 1..Len(last'.cloud) |->
                            transformPoint(last'.raw_pose, last'.cloud[i])]
                 hit == {VoxelKey(map_octree', scan[i]) : i \in 1..Len(scan)}
             IN /\ Len(map_cloud') = Cardinality(hit)
                /\ Range(map_cloud') \subseteq Range(scan)
                /\ \A k \in hit :
                     Cardinality({i \in 1..Len(map_cloud') :
                                    VoxelKey(map_octree', map_cloud'[i]) = k}) = 1]_vars

\* C3 witness: a scan of two points in two voxels, under a pose that moves
\* them, bootstrapped a map of two points.
BootstrapOfTwoVoxels ==
  /\ last.op = "refine"
  /\ last.branch = "bootstrap"
  /\ last.raw_pose # Identity
  /\ Len(last.cloud) = 2
  /\ Len(map_cloud) = 2
  /\ map_cloud # last.cloud

\* C4 as stated: every growth transition on an empty map leaves the map
\* non-empty.
BootstrapAlwaysReachesTracking ==
  [][(RefineStep /\ Len(map_cloud) = 0) => Len(map_cloud') > 0]_vars

\* C4 amended: a growth transition on an empty map with a scan of at least
\* one point leaves the map non-empty, and a growth transition on a non-empty
\* map takes the registration branch.
BootstrapWithPointsReachesTracking ==
  [][/\ (RefineStep /\ Len(map_cloud) = 0 /\ Len(last'.cloud) > 0)
          => (Len(map_cloud') > 0 /\ last'.branch = "bootstrap")
     /\ (RefineStep /\ Len(map_cloud) > 0)
          => (last'.branch = "tracking" /\ last'.icp_ran)]_vars

\* C4 witness: a scan with points bootstrapped the map.
BootstrappedFromScan ==
  /\ last.op = "refine"
  /\ last.branch = "bootstrap"
  /\ Len(last.cloud) > 0
  /\ Len(map_cloud) > 0

\* C5 as stated: every growth transition that returns true appends exactly
\* one entry to the refined path.
PathGrowsWithEverySuccess ==
  [][(RefineStep /\ last'.ret) => Len(refined_path') = Len(refined_path) + 1]_vars

EmissionGatedByOwnSink ==
  last.op = "refine"
    => /\ \A s \in Sinks :
            (s \in EmittedSinks) <=> (s \in DOMAIN last.subs /\ last.subs[s] > 0)
       /\ Len(last.emitted) = Cardinality(EmittedSinks)

\* C7 witness: with consumers on the map sink only, only the map was emitted.
OnlyMapEmitted ==
  /\ last.op = "refine"
  /\ last.ret
  /\ last.subs = [s \in Sinks |-> IF s = "map" THEN 1 ELSE 0]
  /\ EmittedSinks = {"map"}

\* C8: every step other than a reset keeps the stored points at their
\* indices (the cloud only gets longer) and keeps every occupied voxel
\* occupied.
MapOnlyGrowsBetweenResets ==
  [][ResetStep
       \/ /\ IsPrefix(map_cloud, map_cloud')
          /\ map_octree.leaves \subseteq map_octree'.leaves
          /\ (map_octree.defined => map_octree'.min = map_octree.min)
          /\ \A i \in 1..Len(map_cloud) :
               isVoxelOccupiedAtPoint(map_octree', map_cloud[i])]_vars

\* C8 witness: a successful refinement added a point behind the points the
\* map already held.
GrownByRefinement ==
  /\ last.op = "refine"
  /\ last.ret
  /\ Len(map_cloud) > 1
  /\ map_cloud[Len(map_cloud)] \in Range(last.cloud_in_map)
  /\ map_cloud[1] \notin Range(last.cloud_in_map)

\* C9 as stated: after resetMap the cloud is empty and no voxel is
\* occupied, and on an empty map approxNearestNeighbors returns false with an
\* empty output for any query cloud.
EmptyMapYieldsNoNeighbour ==
  /\ last.op = "reset" => (map_cloud = <<>> /\ map_octree.leaves = {})
  /\ (last.op = "nearest" /\ map_cloud = <<>>)
       => (~crashed /\ last.ret = FALSE /\ last.nn_out = <<>>)

\* C10: when approxNearestNeighbors returns, its output holds, in scan
\* order, the stored point of each lookup that yielded an index and nothing
\* else (what the output held before is gone), it is no longer than the
\* scan, and the result is true exactly when the output is not empty.
PartnerCloudIsTheMatches ==
  (last.op = "nearest" /\ ~crashed)
    => LET hits == SelectSeq(last.lookups, LAMBDA r : r >= 0)
       IN /\ last.nn_out = [k \in 1..Len(hits) |-> map_cloud[hits[k] + 1]]
          /\ Range(last.nn_out) \subseteq Range(map_cloud)
          /\ Len(last.nn_out) <= Len(last.cloud)
          /\ last.ret <=> (Len(last.nn_out) > 0)

\* C10 witness: a search with two query points on a map of two points that
\* found both points, with an output cloud that was not empty before.
TwoMatchesOverOldOutput ==
  /\ last.op = "nearest"
  /\ ~crashed
  /\ last.nn_in # <<>>
  /\ Len(last.cloud) = 2
  /\ Len(last.nn_out) = 2
  /\ last.nn_out[1] # last.nn_out[2]

\* C11: the entry a successful refinement appends to the refined path is the
\* refined pose of that call paired with the timestamp supplied with its scan.
PathEntryCarriesScanStamp ==
  (last.op = "refine" /\ last.ret /\ "path" \in EmittedSinks)
    => /\ Len(refined_path) > 0
       /\ refined_path[Len(refined_path)]
            = [pose |-> last.refined_pose, stamp |-> last.stamp]

\* C12: when the library call inside transformCloudToPoseFrame fails, the
\* function does not crash, its output is the input cloud unmodified, and the
\* failure is reported to the caller.
FailedTransformHandsBackInput ==
  (last.op = "transform" /\ last.throws[1])
    => /\ ~crashed
       /\ last.nn_out = last.cloud
       /\ last.reported

\* the step is a call of estimateTransformICP
IcpStep == last.op = "none" /\ last'.op = "icp"

SuccessUsesRefinedPoseOnly ==
  (last.op = "refine" /\ last.ret)
    => /\ last.refined_pose = compose(last.raw_pose, last.delta)
       /\ last.cloud_in_map = ScanUnder(last.refined_pose)
       /\ \A i \in 1..Len(last.emitted) :
            last.emitted[i].sink = "registered"
              => last.emitted[i].cloud = ScanUnder(last.refined_pose)

\* C16: a successful refinement with a map subscriber emits the map snapshot
\* after the insertion, so the snapshot is the whole backing cloud with the
\* points this call added; and when registration ran with a subscriber on the
\* correspondence sink, the correspondence snapshot is the first emission of
\* the call, made whether registration converged or not.
SnapshotsInOrder ==
  (last.op = "refine" /\ last.icp_ran)
    => /\ (last.ret /\ hasSubscribers("map", last.subs))
            => \E i \in 1..Len(last.emitted) : last.emitted[i].sink = "map"
       /\ \A i \in 1..Len(last.emitted) :
            /\ last.emitted[i].sink = "map" => last.emitted[i].cloud = map_cloud
            /\ last.emitted[i].sink = "nn" => i = 1
       /\ hasSubscribers("nn", last.subs)
            => /\ Len(last.emitted) > 0
               /\ last.emitted[1] = Emission("nn", last.nn_out, <<>>)

\* C16 witness: a successful refinement with subscribers on both sinks whose
\* scan put a second point into the map; the correspondence snapshot comes
\* first and the map snapshot holds both points.
SnapshotWithNewPoint ==
  /\ last.op = "refine"
  /\ last.ret
  /\ Len(last.emitted) = 2
  /\ last.emitted[1].sink = "nn"
  /\ last.emitted[2].sink = "map"
  /\ Len(last.emitted[2].cloud) = 2
  /\ last.emitted[2].cloud[2] \in Range(last.cloud_in_map)
  /\ last.emitted[2].cloud[1] \notin Range(last.cloud_in_map)

\* the other case of C16: a call whose registration did not converge has
\* emitted the correspondence snapshot and nothing else
NnSnapshotWithoutConvergence ==
  /\ last.op = "refine"
  /\ last.icp_ran
  /\ ~last.converged
  /\ EmittedSinks = {"nn"}

\* C17: in the tracking branch every point of the correspondence cloud,
\* taken back to the map frame by the raw pose, is a point the map held when
\* the call began: the search runs before any point of the scan is inserted.
CorrespondencesFromPriorMap ==
  [][(RefineStep /\ last'.icp_ran)
       => /\ Len(last'.nn_out) = Len(last'.cloud)
          /\ \A i \in 1..Len(last'.nn_out) :
               transformPoint(last'.raw_pose, last'.nn_out[i]) \in Range(map_cloud)]_vars

\* C17 witness: a successful refinement whose scan point was inserted as a
\* new map point, while its correspondence is another, older map point.
MatchedToOlderPoint ==
  /\ last.op = "refine"
  /\ last.ret
  /\ Len(last.cloud) = 1
  /\ Len(last.nn_out) = 1
  /\ Len(map_cloud) = 2
  /\ map_cloud[2] = last.cloud_in_map[1]
  /\ map_cloud[1] = transformPoint(last.raw_pose, last.nn_out[1])
  /\ map_cloud[1] # map_cloud[2]

FailureKeepsCallerPose ==
  /\ (last.op = "refine" /\ ~crashed /\ ~last.ret)
       => last.transform_out = last.transform_in
  /\ (last.op \in {"refine", "icp"} /\ last.transform_out # last.transform_in)
       => (last.converged /\ last.ret)

\* C19 witness: a call on a map with points, with a scan of one point, whose
\* registration did not converge; the output pose is the caller's value,
\* which is not what registration leaves as its final transformation.
FailedRegistrationKeptCallerPose ==
  /\ last.op = "refine"
  /\ last.icp_ran
  /\ ~last.ret
  /\ Len(last.cloud) > 0
  /\ last.transform_out = CallerTransform
  /\ CallerTransform # NotConverged.T

\* C20: resetMap changes nothing but the map: the refined path is the same
\* after the reset as before it, and every later step keeps the entries the
\* path has and appends after them.
ResetKeepsPath ==
  [][/\ ResetStep => (refined_path' = refined_path /\ crashed' = crashed)
     /\ IsPrefix(refined_path, refined_path')]_vars

\* C20 witness: a reset that found entries in the path and emptied the map
ResetWithPath ==
  /\ last.op = "reset"
  /\ Len(refined_path) > 0
  /\ map_cloud = <<>>

\* C15: every call of refineTransformAndGrowMap returns: each loop makes one
\* iteration per point of a finite cloud and the registration stops at
\* convergence or when its ICP_MAX_ITERS iterations are made.
EveryCallReturns == (last.op = "refine") ~> Running("return")

\* the loops stay within their budgets
LoopsWithinBudget ==
  /\ last.i <= Len(last.cloud_in_map)
  /\ last.iters <= ICP_MAX_ITERS

\* C15 witness: a call returns true after the registration used its whole
\* budget and the insertion went through a scan of the greatest length.
ReturnedAfterFullBudget ==
  /\ Running("return")
  /\ last.ret
  /\ last.iters = ICP_MAX_ITERS
  /\ last.i = MaxScanLen
  /\ Len(last.nn_out) = MaxScanLen

====
